---------------------------- MODULE Spec2Model ----------------------------
(***************************************************************************)
(* Model of the document retrieval engine of AcademicQuestionBot:          *)
(*   backend/rag/loader.py        chunking                                 *)
(*   backend/rag/embeddings.py    local hash embedding                     *)
(*   backend/rag/vector_store.py  InMemoryVectorStore, VectorStore         *)
(*   backend/rag/service.py       RAGService and its manifest              *)
(*                                                                         *)
(* Each request runs as a small-step machine: rq[p].spc is the position in *)
(* the RAGService method, rq[p].vpc the position in the VectorStore method *)
(* it is calling.  Every remote call (a connection probe of _init_qdrant,  *)
(* or one attempt of _with_retry) is one step whose outcome, success or    *)
(* failure, is chosen freely and independently of the others; a call that  *)
(* fails leaves the collection as it was.  The tail call "return           *)
(* self.add(...)" after a successful reconnect is the step back to the     *)
(* entry of the operation.                                                 *)
(*                                                                         *)
(* Vectors are kept as integer vectors.  _normalize divides by the norm;   *)
(* the model keeps the unnormalised direction and compares cosine scores   *)
(* by cross-multiplication (ScoreLess), which is exact over the reals.     *)
(***************************************************************************)
EXTENDS Integers, Sequences, FiniteSets, TLC

(***************************************************************************)
(* Bounds of the model.                                                    *)
(***************************************************************************)
\* largest value of QDRANT_RETRY_ATTEMPTS explored (0..MaxRetry)
MaxRetry == 2
\* number of chunk ids (uuid4 values) that can be drawn in one behaviour
MaxIds == 2
\* chunk_size and chunk_overlap used by load_file, scaled down
ChunkSize == 2
ChunkOverlap == 0
\* embeddings.VECTOR_SIZE, scaled down
VectorSize == 2
\* _embedding_dimension, the dimension of the configured remote model, scaled down
ModelDimension == 3
\* largest top_k and largest limit a caller passes
MaxTopK == 1
MaxLimit == 2
\* page size of the scroll loop (200 in the source), scaled down
PageSize == 1
\* longest text, and largest chunk_size and chunk_overlap, given to the chunker
MaxTextLen == 4
MaxChunkSize == 3
MaxChunkOverlap == 3
\* longest vector a caller passes, and most items put in the fallback store
MaxVecLen == 3
MaxItems == 3
\* largest attempt budget and largest delay given to a retry loop on its own
MaxBudget == 3
MaxDelay == 3
\* load_file's defaults for chunk_size and chunk_overlap
DefaultChunkSize == 800
DefaultChunkOverlap == 100

Procs == {"r1", "r2"}
\* the handler that serves the requests when they run one at a time
Serial == {"r1"}
\* the document ids
Docs == {1, 2}
NoDoc == 0

Min(a, b) == IF a < b THEN a ELSE b
Max(a, b) == IF a > b THEN a ELSE b

(***************************************************************************)
(* Text.  A text is a sequence of one-character strings.                   *)
(***************************************************************************)
IsSpace(c) == c = " "

\* str.lstrip(), str.rstrip()
LStrip(t) ==
  IF \A i \in 1..Len(t) : IsSpace(t[i]) THEN <<>>
  ELSE SubSeq(t, CHOOSE i \in 1..Len(t) :
                   ~IsSpace(t[i]) /\ \A j \in 1..(i - 1) : IsSpace(t[j]),
              Len(t))

RStrip(t) ==
  IF \A i \in 1..Len(t) : IsSpace(t[i]) THEN <<>>
  ELSE SubSeq(t, 1, CHOOSE i \in 1..Len(t) :
                      ~IsSpace(t[i]) /\ \A j \in (i + 1)..Len(t) : IsSpace(t[j]))

\* str.strip()
Strip(t) == RStrip(LStrip(t))

\* text[start : start + size], start counted from 0
Slice(t, start, size) == SubSeq(t, start + 1, Min(start + size, Len(t)))

\* the files that can be uploaded, by name, and what each holds
FileNames == {1, 2}
FileText(f) ==
  IF f = 1 THEN <<"a", "b">>
  ELSE <<" ", "b", " ", " ", " ", "a">>

(***************************************************************************)
(* loader._chunk_text: the windows of the stripped text, the empty ones    *)
(* skipped; chunk_index is the window's number, offset its start.          *)
(***************************************************************************)
RECURSIVE ChunkWindows(_, _, _, _)
ChunkWindows(t, index, step, size) ==
  LET start == index * step IN
  IF start >= Len(t) THEN <<>>
  ELSE LET chunk_text == Strip(Slice(t, start, size))
           rest == ChunkWindows(t, index + 1, step, size)
       IN IF chunk_text = <<>> THEN rest
          ELSE <<[idx |-> index, off |-> start, content |-> chunk_text]>> \o rest

\* a variant that advances by the chunk size, ignoring the overlap
ChunkTextNoOverlap(text, size, overlap) ==
  LET t == Strip(text) IN
  IF t = <<>> THEN <<>>
  ELSE ChunkWindows(t, 0, Max(1, size), size)

ChunkText(text, size, overlap) ==
  LET t == Strip(text) IN
  IF t = <<>> THEN <<>>
  ELSE ChunkWindows(t, 0, Max(1, size - overlap), size)

(***************************************************************************)
(* embeddings._local_embedding: bucket counts of ord(char) mod D.          *)
(***************************************************************************)
Ord(c) ==
  CASE c = "a" -> 97
    [] c = "b" -> 98
    [] c = "A" -> 65
    [] c = " " -> 32
    [] OTHER -> 63

Lower(c) == IF c = "A" THEN "a" ELSE c

\* embeddings.VECTOR_SIZE, line 29, with or without an OPENAI_API_KEY
VectorSizeWith(hasKey) == IF hasKey THEN ModelDimension ELSE VectorSize

\* a variant that always uses the fallback dimension
LocalEmbeddingFallbackSize(text, hasKey) ==
  [i \in 1..VectorSize |->
     Cardinality({n \in 1..Len(text) : Ord(Lower(text[n])) % VectorSize = i - 1})]

\* _local_embedding, with or without an OPENAI_API_KEY.  The entries are the
\* bucket counts; _normalize divides them by their common L2 norm (or leaves
\* the zero vector alone), which changes neither the number of entries nor
\* which of them are zero.
LocalEmbeddingWith(text, hasKey) ==
  LET dimension == VectorSizeWith(hasKey) IN
  [i \in 1..dimension |->
     Cardinality({n \in 1..Len(text) : Ord(Lower(text[n])) % dimension = i - 1})]

\* _local_embedding with no OPENAI_API_KEY configured
LocalEmbedding(text) == LocalEmbeddingWith(text, FALSE)

\* what the embeddings endpoint may answer: no answer (transport failure),
\* an error status, a body that is not JSON, JSON without data[0].embedding,
\* an embedding that is null or a number, an empty list, a string (its
\* characters are shown by their codes), a list of numbers
Responses ==
  {[kind |-> "transport_error"], [kind |-> "error_status"], [kind |-> "not_json"],
   [kind |-> "no_embedding"], [kind |-> "not_iterable"],
   [kind |-> "list", embedding |-> <<>>],
   [kind |-> "string", embedding |-> <<97, 98>>],
   [kind |-> "list", embedding |-> <<1, 0, 2>>]}

\* _remote_embedding: list(data["data"][0]["embedding"]), or [] on
\* RequestException, KeyError, IndexError, TypeError, ValueError
RemoteEmbedding(resp) ==
  IF resp.kind \in {"list", "string"} THEN resp.embedding ELSE <<>>

\* embed_text, the endpoint answering resp when it is asked
EmbedTextWith(text, hasKey, resp) ==
  IF hasKey /\ RemoteEmbedding(resp) # <<>> THEN RemoteEmbedding(resp)
  ELSE LocalEmbeddingWith(text, hasKey)

\* embed_text with no OPENAI_API_KEY configured
EmbedText(text) == LocalEmbedding(text)

(***************************************************************************)
(* vector_store helpers.                                                   *)
(***************************************************************************)
\* a variant that hands the vector on as it is
CoerceVectorAsIs(vector, size) == vector

\* _coerce_vector
CoerceVector(vector, size) ==
  IF size <= 0 THEN vector
  ELSE [i \in 1..size |-> IF i <= Len(vector) THEN vector[i] ELSE 0]

RECURSIVE DotFrom(_, _, _)
DotFrom(l, r, i) ==
  IF i > Len(l) \/ i > Len(r) THEN 0 ELSE l[i] * r[i] + DotFrom(l, r, i + 1)

\* _dot: zip stops at the shorter vector
Dot(l, r) == DotFrom(l, r, 1)

\* squared norm, 1 for the zero vector (which _normalize leaves as it is)
NormSq(v) == IF Dot(v, v) = 0 THEN 1 ELSE Dot(v, v)

\* score(q, v1) < score(q, v2), score being _dot(_normalize(q), _normalize(v))
ScoreLess(q, v1, v2) ==
  LET a == Dot(q, v1)
      b == Dot(q, v2)
      n1 == NormSq(v1)
      n2 == NormSq(v2)
  IN CASE a < 0 /\ b >= 0 -> TRUE
       [] a >= 0 /\ b < 0 -> FALSE
       [] a >= 0 /\ b >= 0 -> a * a * n2 < b * b * n1
       [] OTHER -> a * a * n2 > b * b * n1

\* _chunk_sort_key order: (chunk_index, offset, id)
ChunkBefore(c, d) ==
  \/ c.idx < d.idx
  \/ c.idx = d.idx /\ c.off < d.off
  \/ c.idx = d.idx /\ c.off = d.off /\ c.id < d.id

\* the sequence of the elements of S in the strict total order before(_, _)
SortSet(S, before(_, _)) ==
  [r \in 1..Cardinality(S) |->
     CHOOSE x \in S : Cardinality({y \in S : before(y, x)}) = r - 1]

\* list.sort(key=...): a stable sort of a sequence by a strict weak order
StableSort(s, less(_, _)) ==
  LET rank(i) ==
        Cardinality({j \in 1..Len(s) :
                       less(s[j], s[i]) \/ (~less(s[i], s[j]) /\ j < i)})
  IN [r \in 1..Len(s) |-> s[CHOOSE i \in 1..Len(s) : rank(i) = r - 1]]

(***************************************************************************)
(* Chunks, points and records.                                             *)
(***************************************************************************)
NoChunk == [id |-> 0, doc |-> NoDoc, idx |-> 0, off |-> 0, content |-> <<>>]
NoItem == [chunk |-> NoChunk, vec |-> <<>>]
NoRec == [doc |-> NoDoc, stored |-> 0, chunks |-> 0, size |-> 0, at |-> 0]

\* qdrant_models.PointStruct(id, vector, payload), payload = content + metadata
PointStruct(chunk, vector) ==
  [id |-> chunk.id, vec |-> vector,
   payload |-> [content |-> chunk.content, doc |-> chunk.doc,
                idx |-> chunk.idx, off |-> chunk.off]]

\* _to_document_chunk, and the chunk of _to_search_result
ToDocumentChunk(point) ==
  [id |-> point.id, doc |-> point.payload.doc, idx |-> point.payload.idx,
   off |-> point.payload.off, content |-> point.payload.content]

(***************************************************************************)
(* The Qdrant collection: a set of points, one per id.                     *)
(***************************************************************************)
\* client.upsert
RemoteUpsert(points, point) == {x \in points : x.id # point.id} \cup {point}

\* client.delete with the document_id filter
RemoteDelete(points, d) == {x \in points : x.payload.doc # d}

\* client.search: the top_k points by cosine score (equal scores by id)
RemoteSearch(points, q, k) ==
  LET before(x, y) ==
        \/ ScoreLess(q, y.vec, x.vec)
        \/ ~ScoreLess(q, x.vec, y.vec) /\ x.id < y.id
      ranked == SortSet(points, before)
  IN [n \in 1..Min(k, Len(ranked)) |-> ToDocumentChunk(ranked[n])]

\* a variant that scrolls the whole collection, without the document filter
RemoteScrollAnyDocument(points, d, pageLimit, offset) ==
  LET match == {x \in points : x.id >= offset}
      byId(x, y) == x.id < y.id
      sorted == SortSet(match, byId)
  IN [points |-> SubSeq(sorted, 1, Min(pageLimit, Len(sorted))),
      next |-> IF Len(sorted) > pageLimit THEN sorted[pageLimit + 1].id ELSE 0]

\* client.scroll: one page of the document's points in id order, from the
\* point with id `offset` on (0: from the start), and the id the next page
\* starts at (0: there is none)
RemoteScroll(points, d, pageLimit, offset) ==
  LET match == {x \in points : x.payload.doc = d /\ x.id >= offset}
      byId(x, y) == x.id < y.id
      sorted == SortSet(match, byId)
  IN [points |-> SubSeq(sorted, 1, Min(pageLimit, Len(sorted))),
      next |-> IF Len(sorted) > pageLimit THEN sorted[pageLimit + 1].id ELSE 0]

(***************************************************************************)
(* InMemoryVectorStore: a list of (chunk, vector) items.                   *)
(***************************************************************************)
\* InMemoryVectorStore.add
FbAdd(items, chunk, vector) ==
  Append(items, [chunk |-> chunk, vec |-> CoerceVector(vector, VectorSize)])

\* a variant that returns the first k items in insertion order
FbSearchUnsorted(items, vector, k) ==
  IF items = <<>> THEN <<>>
  ELSE [n \in 1..Min(k, Len(items)) |-> items[n].chunk]

\* InMemoryVectorStore.search
FbSearch(items, vector, k) ==
  IF items = <<>> THEN <<>>
  ELSE LET q == CoerceVector(vector, VectorSize)
           higher(x, y) == ScoreLess(q, y.vec, x.vec)
           results == StableSort(items, higher)
       IN [n \in 1..Min(k, Len(results)) |-> results[n].chunk]

\* InMemoryVectorStore.delete_document
FbDelete(items, d) == SelectSeq(items, LAMBDA it : it.chunk.doc # d)

\* InMemoryVectorStore.list_document_chunks (offset 0)
FbList(items, d, limit) ==
  IF limit <= 0 THEN <<>>
  ELSE LET mine == SelectSeq(items, LAMBDA it : it.chunk.doc = d)
           filtered == [n \in 1..Len(mine) |-> mine[n].chunk]
           sorted == StableSort(filtered, ChunkBefore)
       IN SubSeq(sorted, 1, Min(limit, Len(sorted)))

(***************************************************************************)
(* State.                                                                  *)
(***************************************************************************)
VARIABLES
  strict,           \* VectorStore._strict (QDRANT_STRICT)
  fallbackEnv,      \* QDRANT_FALLBACK_ENABLED as configured
  fallbackEnabled,  \* VectorStore._fallback_enabled
  retryAttempts,    \* VectorStore._retry_attempts
  ready,            \* the module-level RAGService(): "constructing", "ready", "failed"
  client,           \* VectorStore._client is not None
  remote,           \* the points of the Qdrant collection
  fallback,         \* InMemoryVectorStore._items
  manifest,         \* RAGService._manifest
  manifestFile,     \* the records in manifest.json
  files,            \* the names of the files in the storage directory
  usedIds,          \* the uuid4 values drawn so far
  clock,            \* the number of records made so far (datetime.utcnow)
  hist,             \* per document id, the history of the chunks tagged with it
  rq,               \* the requests in progress, one per handler
  fn                \* the part studied on its own: a call of a module-level
                    \* function, one retry loop, one _ensure_collection, two
                    \* services on one manifest file, one ingestion task

vars == <<strict, fallbackEnv, fallbackEnabled, retryAttempts, ready, client,
          remote, fallback, manifest, manifestFile, files, usedIds, clock, hist, rq, fn>>

\* what no request changes: the configuration, and the function call under study
config == <<strict, fallbackEnv, fallbackEnabled, retryAttempts, fn>>
\* the state of the service and its stores
service == <<strict, fallbackEnv, fallbackEnabled, retryAttempts, ready, client,
             remote, fallback, manifest, manifestFile, files, usedIds, clock,
             hist, rq>>
stores == <<remote, fallback>>
registry == <<manifest, manifestFile, files>>

\* a request that is not running.  svc/spc: the RAGService method and the
\* position in it; vop/vpc: the VectorStore method it calls and the position
\* in it.  conn0, exhausted, anyOk and served record, for the properties, what
\* happened in the VectorStore call: whether the client was connected at its
\* entry, whether a retry loop used up its attempts before any remote call
\* succeeded, whether any remote call succeeded, and which stores served it.
Idle ==
  [svc |-> "none", spc |-> "none", doc |-> NoDoc, tag |-> NoDoc, file |-> 0,
   chunks |-> <<>>, i |-> 0, rec |-> NoRec, prev |-> NoRec,
   vop |-> "none", vpc |-> "none", att |-> 0, ctx |-> "none",
   item |-> NoItem, q |-> <<>>, k |-> 0, limit |-> 0,
   collected |-> <<>>, nextOff |-> 0, kept |-> <<>>,
   conn0 |-> FALSE, exhausted |-> FALSE, anyOk |-> FALSE, served |-> {},
   res |-> <<>>, out |-> "none", err |-> "none"]

\* The history of the chunks tagged with one document id, which the
\* properties refer to.  st is "none" (no ingestion yet), "open" (the first
\* ingestion is running), "done" (it returned, reporting n chunks) or "dirty"
\* (anything else: an ingestion failed, a second one started, or a deletion
\* was asked for); where collects which stores served the adds of the first
\* ingestion ("none": an add that no store served).
NoHist == [st |-> "none", where |-> {}, n |-> 0]
Dirty == [st |-> "dirty", where |-> {}, n |-> 0]

\* a variant that leaves the fallback flag as configured
FallbackAsConfigured(isStrict, env) == env

\* no function call under study
NoFn == [op |-> "none"]

\* lines 85-86: strict mode switches the fallback off
EffectiveFallback(isStrict, env) == IF isStrict THEN FALSE ELSE env

\* lines 92-94: the fallback store exists iff fallback is enabled
HasFallbackStore == fallbackEnabled

Init ==
  /\ strict \in BOOLEAN
  /\ fallbackEnv \in BOOLEAN
  /\ fallbackEnabled = EffectiveFallback(strict, fallbackEnv)
  /\ retryAttempts \in 0..MaxRetry
  /\ ready = "constructing"
  /\ client = FALSE
  /\ remote = {}
  /\ fallback = <<>>
  /\ manifest = <<>>
  /\ manifestFile = <<>>
  /\ files = {}
  /\ usedIds = {}
  /\ clock = 0
  /\ hist = [t \in Docs |-> NoHist]
  /\ fn = NoFn
  /\ rq = [p \in Procs |->
             IF p = "r1"
             THEN [Idle EXCEPT !.svc = "ctor", !.vop = "init", !.vpc = "entry"]
             ELSE Idle]

(***************************************************************************)
(* VectorStore: the steps of one public operation.                         *)
(***************************************************************************)
\* att and ctx are the locals of the retry loops: they are reset where no
\* loop is running
VsRaise(r) == [r EXCEPT !.vpc = "raise", !.att = 0, !.ctx = "none"]
VsReturn(r, res) == [r EXCEPT !.vpc = "ret", !.res = res, !.att = 0, !.ctx = "none"]
VsToFallback(r) == [r EXCEPT !.vpc = "fb", !.att = 0, !.ctx = "none"]
VsToEntry(r) == [r EXCEPT !.vpc = "entry", !.att = 0, !.ctx = "none"]

\* the start of the try block: _with_retry's first attempt
StartCall(r) ==
  [r EXCEPT !.vpc = "call", !.att = 0, !.ctx = "none",
            !.collected = <<>>, !.nextOff = 0]

\* a variant that raises after a failed reconnect whatever the fallback flag
AfterInitNoFailover(r, cl) ==
  CASE r.ctx = "ctor" -> VsReturn(r, <<>>)
    [] r.ctx = "entry" ->
         IF ~cl /\ strict THEN VsRaise(r)
         ELSE IF cl THEN StartCall(r)
         ELSE VsToFallback(r)
    [] OTHER -> IF cl THEN VsToEntry(r) ELSE VsRaise(r)

\* what follows a return of _init_qdrant, `cl` being whether a client is set:
\* lines 104-106 after the call at the entry, lines 121-124 after the call
\* in _try_reconnect, line 96 in the constructor
AfterInit(r, cl) ==
  CASE r.ctx = "ctor" -> VsReturn(r, <<>>)
    [] r.ctx = "entry" ->
         IF ~cl /\ strict THEN VsRaise(r)
         ELSE IF cl THEN StartCall(r)
         ELSE VsToFallback(r)
    [] OTHER ->
         IF cl THEN VsToEntry(r)
         ELSE IF ~fallbackEnabled THEN VsRaise(r)
         ELSE VsToFallback(r)

\* a call of _init_qdrant: its loop runs retryAttempts times
CallInit(r, ctx, cl) ==
  IF retryAttempts <= 0 THEN AfterInit([r EXCEPT !.ctx = ctx], cl)
  ELSE [r EXCEPT !.vpc = "probe", !.att = 0, !.ctx = ctx]

\* a remote call failed, the last attempt of its loop or not; one succeeded
NoteFail(r, last) ==
  IF last /\ ~r.anyOk THEN [r EXCEPT !.exhausted = TRUE] ELSE r
NoteOk(r) == [r EXCEPT !.anyOk = TRUE]

\* VectorStore.__init__, line 96
VsCtor(p) ==
  /\ rq[p].vop = "init" /\ rq[p].vpc = "entry"
  /\ rq' = [rq EXCEPT ![p] = CallInit(rq[p], "ctor", client)]
  /\ UNCHANGED <<config, ready, client, stores, registry, usedIds, clock, hist>>

\* the entry of add, search, delete_document, list_document_chunks:
\* lines 102-106, 130-134, 155-159, 184-190
VsEntry(p) ==
  /\ rq[p].vop \in {"add", "search", "delete", "list"} /\ rq[p].vpc = "entry"
  /\ rq' = [rq EXCEPT ![p] =
              IF rq[p].vop = "list" /\ rq[p].limit <= 0 THEN VsReturn(rq[p], <<>>)
              ELSE IF ~client THEN CallInit(rq[p], "entry", client)
              ELSE AfterInit([rq[p] EXCEPT !.ctx = "entry"], client)]
  /\ UNCHANGED <<config, ready, client, stores, registry, usedIds, clock, hist>>

\* a variant that copies the fallback store's items to the collection
EnsureCollectionMigrating(points) ==
  points \cup {PointStruct(fallback[n].chunk, fallback[n].vec) : n \in 1..Len(fallback)}

\* _ensure_collection: a successful connection creates the collection if it
\* is missing and leaves the points of an existing one as they are
EnsureCollection(points) == points

\* one attempt of the loop of _init_qdrant, lines 230-255
VsProbe(p) ==
  /\ rq[p].vpc = "probe"
  /\ \E ok \in BOOLEAN :
       IF ok
       THEN /\ client' = TRUE
            /\ remote' = EnsureCollection(remote)
            /\ rq' = [rq EXCEPT ![p] = AfterInit(NoteOk(rq[p]), TRUE)]
       ELSE /\ client' = client
            /\ remote' = remote
            /\ rq' = [rq EXCEPT ![p] =
                 LET r == NoteFail(rq[p], rq[p].att = retryAttempts - 1) IN
                 IF r.att = retryAttempts - 1
                 THEN IF strict \/ ~fallbackEnabled THEN VsRaise(r)
                      ELSE AfterInit(r, client)
                 ELSE [r EXCEPT !.att = r.att + 1]]
  /\ UNCHANGED <<config, ready, fallback, registry, usedIds, clock, hist>>

\* a variant that returns the pages as scrolled, without line 220's sort
ListPageUnsorted(r) ==
  LET page == RemoteScroll(remote, r.doc,
                           Min(PageSize, r.limit - Len(r.collected)), r.nextOff)
      got == [n \in 1..Len(page.points) |-> ToDocumentChunk(page.points[n])]
      collected == r.collected \o got
  IN IF page.points # <<>> /\ page.next # 0 /\ Len(collected) < r.limit
     THEN [r EXCEPT !.collected = collected, !.nextOff = page.next, !.att = 0]
     ELSE [VsReturn(r, collected) EXCEPT !.collected = <<>>, !.nextOff = 0]

\* the next page of the scroll loop, lines 202-219
ListPage(r) ==
  LET page == RemoteScroll(remote, r.doc,
                           Min(PageSize, r.limit - Len(r.collected)), r.nextOff)
      got == [n \in 1..Len(page.points) |-> ToDocumentChunk(page.points[n])]
      collected == r.collected \o got
  IN IF page.points # <<>> /\ page.next # 0 /\ Len(collected) < r.limit
     THEN [r EXCEPT !.collected = collected, !.nextOff = page.next, !.att = 0]
     ELSE [VsReturn(r, StableSort(collected, ChunkBefore))
             EXCEPT !.collected = <<>>, !.nextOff = 0]

\* one attempt of the loop of _with_retry, lines 285-292, on the operation's
\* remote call; its last failure goes to _try_reconnect, lines 257-261.
\* The client is set only by a successful probe, so retryAttempts >= 1 here.
VsCall(p) ==
  /\ rq[p].vpc = "call" /\ rq[p].att < retryAttempts
  /\ \E ok \in BOOLEAN :
       IF ok /\ client
       THEN LET r == [NoteOk(rq[p]) EXCEPT !.served = @ \cup {"remote"}] IN
            /\ client' = client
            /\ remote' =
                 CASE r.vop = "add" ->
                        RemoteUpsert(remote, PointStruct(r.item.chunk, r.item.vec))
                   [] r.vop = "delete" -> RemoteDelete(remote, r.doc)
                   [] OTHER -> remote
            /\ rq' = [rq EXCEPT ![p] =
                 CASE r.vop = "add" -> VsReturn(r, <<>>)
                   [] r.vop = "search" -> VsReturn(r, RemoteSearch(remote, r.q, r.k))
                   [] r.vop = "delete" -> VsToFallback(r)
                   [] OTHER -> ListPage(r)]
       ELSE LET r == NoteFail(rq[p], rq[p].att = retryAttempts - 1) IN
            /\ remote' = remote
            /\ IF r.att = retryAttempts - 1
               THEN /\ client' = FALSE
                    /\ rq' = [rq EXCEPT ![p] = CallInit(r, "reconn", FALSE)]
               ELSE /\ client' = client
                    /\ rq' = [rq EXCEPT ![p] = [r EXCEPT !.att = r.att + 1]]
  /\ UNCHANGED <<config, ready, fallback, registry, usedIds, clock, hist>>

\* the fallback part: lines 125-126, 150-152, 180-181, 225-227
VsFallback(p) ==
  /\ rq[p].vpc = "fb"
  /\ LET r == rq[p] IN
     IF HasFallbackStore
     THEN /\ fallback' =
               CASE r.vop = "add" -> FbAdd(fallback, r.item.chunk, r.item.vec)
                 [] r.vop = "delete" -> FbDelete(fallback, r.doc)
                 [] OTHER -> fallback
          /\ rq' = [rq EXCEPT ![p] =
               LET s == [r EXCEPT !.served = @ \cup {"fallback"}] IN
               CASE r.vop = "search" -> VsReturn(s, FbSearch(fallback, r.q, r.k))
                 [] r.vop = "list" -> VsReturn(s, FbList(fallback, r.doc, r.limit))
                 [] OTHER -> VsReturn(s, <<>>)]
     ELSE /\ fallback' = fallback
          /\ rq' = [rq EXCEPT ![p] = VsReturn(r, <<>>)]
  /\ UNCHANGED <<config, ready, client, remote, registry, usedIds, clock, hist>>

\* a call of a VectorStore method from position spc of the service
VsStart(r, op) ==
  [r EXCEPT !.vop = op, !.vpc = "entry", !.att = 0, !.ctx = "none",
            !.conn0 = client, !.exhausted = FALSE, !.anyOk = FALSE, !.served = {},
            !.res = <<>>]

(***************************************************************************)
(* RAGService.                                                             *)
(***************************************************************************)
AllIdle == \A p \in Procs : rq[p].svc = "none"

\* RAGService.__init__ returns, or raises what VectorStore.__init__ raised
CtorReturn(p) ==
  /\ rq[p].svc = "ctor" /\ rq[p].vpc \in {"ret", "raise"}
  /\ ready' = IF rq[p].vpc = "ret" THEN "ready" ELSE "failed"
  /\ rq' = [rq EXCEPT ![p] = Idle]
  /\ UNCHANGED <<config, client, stores, registry, usedIds, clock, hist>>

\* RAGService.save_upload
SaveUpload(f) ==
  /\ ready = "ready" /\ f \notin files
  /\ files' = files \cup {f}
  /\ UNCHANGED <<config, ready, client, stores, manifest, manifestFile, usedIds, clock, hist, rq>>

\* the chunks load_file makes of file f for metadata document_id `tag`, with
\* the uuid4 values `ids`
LoadFile(f, tag, ids) ==
  LET protos == ChunkText(FileText(f), ChunkSize, ChunkOverlap) IN
  [n \in 1..Len(protos) |->
     [id |-> ids[n], doc |-> tag, idx |-> protos[n].idx, off |-> protos[n].off,
      content |-> protos[n].content]]

NumChunks(f) == Len(ChunkText(FileText(f), ChunkSize, ChunkOverlap))

\* uuid4: n ids never drawn before.  Only the order of the ids matters (the
\* sort key and the scroll order), so the n lowest unused ids are drawn, in
\* any order.
FreshIds(n) ==
  LET base == Cardinality(usedIds) IN
  {ids \in [1..n -> (base + 1)..(base + n)] :
     /\ base + n <= MaxIds
     /\ \A i, j \in 1..n : i # j => ids[i] # ids[j]}

\* the document_id a caller's metadata may carry: none, or another document's
MetaDocIds(d) == IF d = 1 THEN {NoDoc, 2} ELSE {NoDoc}

\* RAGService.ingest_path(path=f, metadata={"document_id": md} or {},
\* document_id=d, register=True, stored_file=f), lines 62-68
IngestStart(p, d, md, f) ==
  /\ ready = "ready" /\ rq[p].svc = "none"
  /\ IF f \notin files
     THEN /\ rq' = [rq EXCEPT ![p] =
                 [Idle EXCEPT !.svc = "ingest", !.spc = "done", !.doc = d,
                              !.file = f, !.out = "raise", !.err = "FileNotFound"]]
          /\ UNCHANGED <<usedIds, hist>>
     ELSE \E ids \in FreshIds(NumChunks(f)) :
            /\ usedIds' = usedIds \cup {ids[n] : n \in 1..NumChunks(f)}
            /\ hist' = [hist EXCEPT ![IF md # NoDoc THEN md ELSE d] =
                          IF @.st = "none" THEN [@ EXCEPT !.st = "open"] ELSE Dirty]
            /\ rq' = [rq EXCEPT ![p] =
                 [Idle EXCEPT !.svc = "ingest", !.spc = "loop", !.doc = d,
                              !.tag = IF md # NoDoc THEN md ELSE d,
                              !.file = f, !.i = 1,
                              !.chunks = LoadFile(f, IF md # NoDoc THEN md ELSE d, ids)]]
  /\ UNCHANGED <<config, ready, client, stores, registry, clock>>

\* lines 69-70: the next vector_store.add, or lines 71-77 after the last
IngestLoop(p) ==
  /\ rq[p].svc = "ingest" /\ rq[p].spc = "loop" /\ rq[p].vpc = "none"
  /\ rq' = [rq EXCEPT ![p] =
       LET r == rq[p] IN
       IF r.i <= Len(r.chunks)
       THEN [VsStart(r, "add") EXCEPT
               !.item = [chunk |-> r.chunks[r.i],
                         vec |-> CoerceVector(EmbedText(r.chunks[r.i].content),
                                              VectorSize)]]
       ELSE [r EXCEPT !.spc = "reg_filter"]]
  /\ UNCHANGED <<config, ready, client, stores, registry, usedIds, clock, hist>>

\* vector_store.add returned, or raised
IngestAdded(p) ==
  /\ rq[p].svc = "ingest" /\ rq[p].spc = "loop" /\ rq[p].vpc \in {"ret", "raise"}
  /\ rq' = [rq EXCEPT ![p] =
       LET r == rq[p] IN
       IF r.vpc = "ret"
       THEN [r EXCEPT !.i = r.i + 1, !.vop = "none", !.vpc = "none",
                      !.item = NoItem, !.served = {}, !.exhausted = FALSE,
                      !.anyOk = FALSE, !.conn0 = FALSE, !.att = 0, !.ctx = "none"]
       ELSE [r EXCEPT !.spc = "done", !.out = "raise", !.err = "Runtime"]]
  /\ hist' = [hist EXCEPT ![rq[p].tag] =
                IF rq[p].vpc = "raise" THEN Dirty
                ELSE IF @.st = "open"
                THEN [@ EXCEPT !.where = @ \cup (IF rq[p].served = {} THEN {"none"}
                                                 ELSE rq[p].served)]
                ELSE @]
  /\ UNCHANGED <<config, ready, client, stores, registry, usedIds, clock>>

\* a variant that keeps every record
WithoutDocKeepAll(m, d) == m

\* the records of a manifest other than those of document d
WithoutDoc(m, d) == SelectSeq(m, LAMBDA rec : rec.doc # d)

\* _find_document
FindDocument(m, d) ==
  IF \E n \in 1..Len(m) : m[n].doc = d
  THEN m[CHOOSE n \in 1..Len(m) :
           m[n].doc = d /\ \A k \in 1..(n - 1) : m[k].doc # d]
  ELSE NoRec

\* _register_document, lines 163-172
RegisterFilter(p) ==
  /\ rq[p].svc = "ingest" /\ rq[p].spc = "reg_filter"
  /\ manifest' = WithoutDoc(manifest, rq[p].doc)
  /\ rq' = [rq EXCEPT ![p] =
       [rq[p] EXCEPT !.spc = "reg_append",
                     !.prev = FindDocument(manifest, rq[p].doc),
                     !.rec = [doc |-> rq[p].doc, stored |-> rq[p].file,
                              chunks |-> Len(rq[p].chunks),
                              size |-> Len(FileText(rq[p].file)),
                              at |-> clock + 1]]]
  /\ clock' = clock + 1
  /\ UNCHANGED <<config, ready, client, stores, manifestFile, files, usedIds, hist>>

\* _register_document, line 173
RegisterAppend(p) ==
  /\ rq[p].svc = "ingest" /\ rq[p].spc = "reg_append"
  /\ manifest' = Append(manifest, rq[p].rec)
  /\ rq' = [rq EXCEPT ![p] = [rq[p] EXCEPT !.spc = "reg_save"]]
  /\ UNCHANGED <<config, ready, client, stores, manifestFile, files, usedIds, clock, hist>>

\* _register_document, line 174 (_save_manifest), and the return of ingest_path
RegisterSave(p) ==
  /\ rq[p].svc = "ingest" /\ rq[p].spc = "reg_save"
  /\ manifestFile' = manifest
  /\ rq' = [rq EXCEPT ![p] = [rq[p] EXCEPT !.spc = "done", !.out = "ok"]]
  /\ hist' = [hist EXCEPT ![rq[p].tag] =
                IF @.st = "open" THEN [@ EXCEPT !.st = "done", !.n = Len(rq[p].chunks)]
                ELSE @]
  /\ UNCHANGED <<config, ready, client, stores, manifest, files, usedIds, clock>>

\* RAGService.delete_document, lines 129-136
DeleteStart(p, d) ==
  /\ ready = "ready" /\ rq[p].svc = "none"
  /\ LET record == FindDocument(manifest, d) IN
     IF record = NoRec
     THEN /\ rq' = [rq EXCEPT ![p] =
                 [Idle EXCEPT !.svc = "delete", !.spc = "done", !.doc = d,
                              !.out = "raise", !.err = "KeyError"]]
          /\ UNCHANGED <<files, hist>>
     ELSE /\ rq' = [rq EXCEPT ![p] =
                 VsStart([Idle EXCEPT !.svc = "delete", !.spc = "vs", !.doc = d,
                                      !.rec = record], "delete")]
          /\ files' = files \ {record.stored}
          /\ hist' = [hist EXCEPT ![d] = IF @.st = "none" THEN @ ELSE Dirty]
  /\ UNCHANGED <<config, ready, client, stores, manifest, manifestFile, usedIds, clock>>

\* line 136 returned or raised; line 137
DeleteFilter(p) ==
  /\ rq[p].svc = "delete" /\ rq[p].spc = "vs" /\ rq[p].vpc \in {"ret", "raise"}
  /\ IF rq[p].vpc = "ret"
     THEN /\ manifest' = WithoutDoc(manifest, rq[p].doc)
          /\ rq' = [rq EXCEPT ![p] = [rq[p] EXCEPT !.spc = "del_save"]]
     ELSE /\ manifest' = manifest
          /\ rq' = [rq EXCEPT ![p] =
                 [rq[p] EXCEPT !.spc = "done", !.out = "raise", !.err = "Runtime"]]
  /\ UNCHANGED <<config, ready, client, stores, manifestFile, files, usedIds, clock, hist>>

\* lines 138-139
DeleteSave(p) ==
  /\ rq[p].svc = "delete" /\ rq[p].spc = "del_save"
  /\ manifestFile' = manifest
  /\ rq' = [rq EXCEPT ![p] = [rq[p] EXCEPT !.spc = "done", !.out = "ok"]]
  /\ UNCHANGED <<config, ready, client, stores, manifest, files, usedIds, clock, hist>>

\* the texts a query is made of
QueryTexts == {<<"a">>}

\* RAGService.search -> retriever.retrieve -> VectorStore.search
SearchStart(p, text, k) ==
  /\ ready = "ready" /\ rq[p].svc = "none"
  /\ rq' = [rq EXCEPT ![p] =
       [VsStart([Idle EXCEPT !.svc = "search", !.spc = "vs"], "search")
          EXCEPT !.q = CoerceVector(EmbedText(text), VectorSize), !.k = k]]
  /\ UNCHANGED <<config, ready, client, stores, registry, usedIds, clock, hist>>

\* VectorStore.list_document_chunks(d, limit=limit)
ListStart(p, d, limit) ==
  /\ ready = "ready" /\ rq[p].svc = "none"
  /\ rq' = [rq EXCEPT ![p] =
       [VsStart([Idle EXCEPT !.svc = "list", !.spc = "vs", !.doc = d], "list")
          EXCEPT !.limit = limit]]
  /\ UNCHANGED <<config, ready, client, stores, registry, usedIds, clock, hist>>

\* the request is over: ingest_path or delete_document is done, or search or
\* list_document_chunks hands on what the VectorStore returned or raised
Finish(p) ==
  /\ \/ rq[p].spc = "done"
     \/ rq[p].svc \in {"search", "list"} /\ rq[p].vpc \in {"ret", "raise"}
  /\ rq' = [rq EXCEPT ![p] = Idle]
  /\ UNCHANGED <<config, ready, client, stores, registry, usedIds, clock, hist>>

(***************************************************************************)
(* One request at a time.                                                  *)
(***************************************************************************)
Next ==
  \/ \E p \in Serial : VsCtor(p)
  \/ \E p \in Serial : VsEntry(p)
  \/ \E p \in Serial : VsProbe(p)
  \/ \E p \in Serial : VsCall(p)
  \/ \E p \in Serial : VsFallback(p)
  \/ \E p \in Serial : CtorReturn(p)
  \/ \E f \in FileNames : AllIdle /\ SaveUpload(f)
  \/ \E p \in Serial, d \in Docs, f \in FileNames :
       \E md \in MetaDocIds(d) : AllIdle /\ IngestStart(p, d, md, f)
  \/ \E p \in Serial : IngestLoop(p)
  \/ \E p \in Serial : IngestAdded(p)
  \/ \E p \in Serial : RegisterFilter(p)
  \/ \E p \in Serial : RegisterAppend(p)
  \/ \E p \in Serial : RegisterSave(p)
  \/ \E p \in Serial, d \in Docs : AllIdle /\ DeleteStart(p, d)
  \/ \E p \in Serial : DeleteFilter(p)
  \/ \E p \in Serial : DeleteSave(p)
  \/ \E p \in Serial, text \in QueryTexts, k \in 1..MaxTopK :
       AllIdle /\ SearchStart(p, text, k)
  \/ \E p \in Serial, d \in Docs, limit \in 0..MaxLimit :
       AllIdle /\ ListStart(p, d, limit)
  \/ \E p \in Serial : Finish(p)

Spec == Init /\ [][Next]_vars

\* The same service under one configuration, the serving thread always
\* running on: a request that can take a step eventually takes one.
InitLive == Init /\ ~strict /\ fallbackEnv /\ retryAttempts = 1

SpecLive == InitLive /\ [][Next]_vars /\ WF_vars(Next)

(***************************************************************************)
(* Ingestions on two threads of one service.                               *)
(***************************************************************************)
\* ingest_path called on either thread while the other may be running: the
\* steps of the two interleave statement by statement
NextConc ==
  \/ \E p \in Procs : VsCtor(p)
  \/ \E p \in Procs : VsEntry(p)
  \/ \E p \in Procs : VsProbe(p)
  \/ \E p \in Procs : VsCall(p)
  \/ \E p \in Procs : VsFallback(p)
  \/ \E p \in Procs : CtorReturn(p)
  \/ \E f \in FileNames : AllIdle /\ SaveUpload(f)
  \/ \E p \in Procs, d \in Docs, f \in FileNames : IngestStart(p, d, NoDoc, f)
  \/ \E p \in Procs : IngestLoop(p)
  \/ \E p \in Procs : IngestAdded(p)
  \/ \E p \in Procs : RegisterFilter(p)
  \/ \E p \in Procs : RegisterAppend(p)
  \/ \E p \in Procs : RegisterSave(p)
  \/ \E p \in Procs : Finish(p)

InitConc == Init /\ ~strict /\ fallbackEnv /\ retryAttempts = 1

SpecConc == InitConc /\ [][NextConc]_vars

(***************************************************************************)
(* Two threads on one VectorStore: add and delete_document, the statements *)
(* of InMemoryVectorStore.delete_document taken one by one.                *)
(***************************************************************************)
\* VectorStore.add(chunk, vector) of a new chunk of document d
AddStart(p, d) ==
  /\ ready = "ready" /\ rq[p].svc = "none"
  /\ \E ids \in FreshIds(1) :
       /\ usedIds' = usedIds \cup {ids[1]}
       /\ rq' = [rq EXCEPT ![p] =
            [VsStart([Idle EXCEPT !.svc = "add", !.spc = "vs", !.doc = d], "add")
               EXCEPT !.item = [chunk |-> [NoChunk EXCEPT !.id = ids[1], !.doc = d,
                                                       !.content = <<"a">>],
                                vec |-> CoerceVector(EmbedText(<<"a">>), VectorSize)]]]
  /\ UNCHANGED <<config, ready, client, stores, registry, clock, hist>>

\* VectorStore.delete_document(d)
RemoveStart(p, d) ==
  /\ ready = "ready" /\ rq[p].svc = "none"
  /\ rq' = [rq EXCEPT ![p] =
       VsStart([Idle EXCEPT !.svc = "remove", !.spc = "vs", !.doc = d], "delete")]
  /\ hist' = [hist EXCEPT ![d] = Dirty]
  /\ UNCHANGED <<config, ready, client, stores, registry, usedIds, clock>>

\* lines 125-126: the add of the fallback store, line 34
FallbackAdd(p) == rq[p].vop = "add" /\ VsFallback(p)

\* lines 180-181 and 49-53: the list comprehension of delete_document is
\* evaluated on the items as they are now ...
FallbackDeleteRead(p) ==
  /\ rq[p].vop = "delete" /\ rq[p].vpc = "fb" /\ HasFallbackStore
  /\ rq' = [rq EXCEPT ![p] =
       [rq[p] EXCEPT !.vpc = "fb_assign", !.kept = FbDelete(fallback, rq[p].doc)]]
  /\ UNCHANGED <<config, ready, client, stores, registry, usedIds, clock, hist>>

\* ... and its value is assigned to self._items
FallbackDeleteAssign(p) ==
  /\ rq[p].vop = "delete" /\ rq[p].vpc = "fb_assign"
  /\ fallback' = rq[p].kept
  /\ rq' = [rq EXCEPT ![p] =
       [VsReturn([rq[p] EXCEPT !.served = @ \cup {"fallback"}], <<>>)
          EXCEPT !.kept = <<>>]]
  /\ UNCHANGED <<config, ready, client, remote, registry, usedIds, clock, hist>>

\* add or delete_document has returned or raised
StoreReturn(p) ==
  /\ rq[p].svc \in {"add", "remove"} /\ rq[p].vpc \in {"ret", "raise"}
  /\ rq' = [rq EXCEPT ![p] = Idle]
  /\ UNCHANGED <<config, ready, client, stores, registry, usedIds, clock, hist>>

NextStore ==
  \/ \E p \in Procs : VsCtor(p)
  \/ \E p \in Procs : CtorReturn(p)
  \/ \E p \in Procs, d \in Docs : AddStart(p, d)
  \/ \E p \in Procs, d \in Docs : RemoveStart(p, d)
  \/ \E p \in Procs : VsEntry(p)
  \/ \E p \in Procs : VsProbe(p)
  \/ \E p \in Procs : VsCall(p)
  \/ \E p \in Procs : FallbackAdd(p)
  \/ \E p \in Procs : FallbackDeleteRead(p)
  \/ \E p \in Procs : FallbackDeleteAssign(p)
  \/ \E p \in Procs : StoreReturn(p)

SpecStore == InitConc /\ [][NextStore]_vars


(***************************************************************************)
(* The module-level functions, called on their own.                        *)
(***************************************************************************)
\* the texts of at most n characters over the alphabet of the model
RECURSIVE TextsUpTo(_)
TextsUpTo(n) ==
  IF n = 0 THEN {<<>>}
  ELSE LET shorter == TextsUpTo(n - 1) IN
       shorter \cup {Append(t, c) : t \in shorter, c \in {" ", "a", "b"}}

\* two texts of 2000 characters: one without whitespace, one whose middle is
\* whitespace
ScenarioTexts ==
  {[i \in 1..2000 |-> "a"],
   [i \in 1..2000 |-> IF i \in {1, 2000} THEN "a" ELSE " "]}

\* loader._chunk_text(text, chunk_size=size, chunk_overlap=overlap); the
\* chunks are kept without their uuid4 ids
FnChunk ==
  /\ fn = NoFn
  /\ \E text \in TextsUpTo(MaxTextLen), size \in 1..MaxChunkSize,
        overlap \in 0..MaxChunkOverlap :
       fn' = [op |-> "chunk", text |-> text, size |-> size, overlap |-> overlap,
              chunks |-> ChunkText(text, size, overlap)]
  /\ UNCHANGED service

\* loader._chunk_text with load_file's default chunk_size and chunk_overlap
FnChunkDefault ==
  /\ fn = NoFn
  /\ \E text \in ScenarioTexts :
       fn' = [op |-> "chunk", text |-> text, size |-> DefaultChunkSize,
              overlap |-> DefaultChunkOverlap,
              chunks |-> ChunkText(text, DefaultChunkSize, DefaultChunkOverlap)]
  /\ UNCHANGED service

\* the functions are called in a process whose service is not in use
InitFn == Init /\ ~strict /\ fallbackEnv /\ retryAttempts = MaxRetry

\* the vectors of at most n entries a caller may pass
RECURSIVE VectorsUpTo(_)
VectorsUpTo(n) ==
  IF n = 0 THEN {<<>>}
  ELSE LET shorter == VectorsUpTo(n - 1) IN
       shorter \cup {Append(v, x) : v \in shorter, x \in {0, 1, 2}}

\* the vector of a caller on its way through VectorStore.add and
\* VectorStore.search: vector_payload (lines 100, 129), the vector of the
\* point upserted (lines 107-111), the vector the fallback store keeps
\* (lines 126, 34) and the query vector it compares (lines 152, 40)
FnCoerce ==
  /\ fn = NoFn
  /\ \E v \in VectorsUpTo(MaxVecLen) :
       LET payload == CoerceVector(v, VectorSize) IN
       fn' = [op |-> "coerce", vector |-> v, payload |-> payload,
              again |-> CoerceVector(payload, VectorSize),
              upsert |-> PointStruct(NoChunk, payload).vec,
              stored |-> FbAdd(<<>>, NoChunk, payload)[1].vec,
              compared |-> CoerceVector(payload, VectorSize)]
  /\ UNCHANGED service

\* the vectors stored in the fallback store and searched for
SearchVectors == {<<0, 0>>, <<1, 0>>, <<0, 1>>, <<1, 1>>, <<2, 2>>, <<-1, 0>>}

\* the fallback store after the adds of the vectors vs, in this order, the
\* n-th chunk having id n
RECURSIVE FbAddAll(_)
FbAddAll(vs) ==
  IF vs = <<>> THEN <<>>
  ELSE FbAdd(FbAddAll(SubSeq(vs, 1, Len(vs) - 1)),
             [NoChunk EXCEPT !.id = Len(vs)], vs[Len(vs)])

\* InMemoryVectorStore.search(q, top_k=k) on a store of at most MaxItems items
FnSearch ==
  /\ fn = NoFn
  /\ \E n \in 0..MaxItems :
       \E vs \in [1..n -> SearchVectors], q \in SearchVectors, k \in 0..(MaxItems + 1) :
         fn' = [op |-> "search", items |-> FbAddAll(vs), q |-> q, k |-> k,
                res |-> FbSearch(FbAddAll(vs), q, k)]
  /\ UNCHANGED service

(***************************************************************************)
(* One retry loop: _with_retry around a remote call, or _init_qdrant.      *)
(* Delays are counted in units of time.                                    *)
(***************************************************************************)
RECURSIVE Pow2(_)
Pow2(n) == IF n = 0 THEN 1 ELSE 2 * Pow2(n - 1)

\* a variant without the cap
NextDelayUncapped(delay, maxDelay, attempt) == delay * Pow2(attempt)

\* _next_delay
NextDelay(delay, maxDelay, attempt) == Min(maxDelay, delay * Pow2(attempt))

RetryLoops == {"with_retry", "init_qdrant"}

\* the loop is entered with a budget, the two delays and, for _init_qdrant,
\* the flags of the store; with a budget of 0 its body never runs
FnRetryStart ==
  /\ fn = NoFn
  /\ \E loop \in RetryLoops, budget \in 0..MaxBudget,
        delay \in 0..MaxDelay, maxDelay \in 0..MaxDelay,
        isStrict \in BOOLEAN, env \in BOOLEAN :
       fn' = [op |-> "retry", loop |-> loop, budget |-> budget,
              delay |-> delay, maxDelay |-> maxDelay,
              strict |-> isStrict, fallbackEnabled |-> EffectiveFallback(isStrict, env),
              attempt |-> 0, tried |-> 0, sleeps |-> <<>>, err |-> -1,
              status |-> IF budget <= 0 THEN "fell_through" ELSE "running"]
  /\ UNCHANGED service

\* one pass of the loop body: the attempt succeeds and the loop returns, or
\* it fails and the loop sleeps, or, after the last attempt, raises the
\* error just caught (_init_qdrant returns instead when the store has a
\* fallback: lines 244-253)
FnRetryAttempt ==
  /\ fn.op = "retry" /\ fn.status = "running"
  /\ \E ok \in BOOLEAN :
       fn' = IF ok THEN [fn EXCEPT !.tried = @ + 1, !.status = "returned"]
             ELSE IF fn.attempt = fn.budget - 1
             THEN [fn EXCEPT !.tried = @ + 1, !.err = fn.attempt,
                     !.status = IF fn.loop = "init_qdrant" /\ ~fn.strict
                                   /\ fn.fallbackEnabled
                                THEN "gave_up" ELSE "raised"]
             ELSE [fn EXCEPT !.tried = @ + 1, !.attempt = @ + 1,
                     !.sleeps = Append(@, NextDelay(fn.delay, fn.maxDelay, fn.attempt))]
  /\ UNCHANGED service


\* _local_embedding(text) called twice, and embed_text(text) with the
\* endpoint answering resp
FnEmbed ==
  /\ fn = NoFn
  /\ \E text \in TextsUpTo(MaxTextLen), hasKey \in BOOLEAN, resp \in Responses :
       fn' = [op |-> "embed", text |-> text, key |-> hasKey, resp |-> resp,
              first |-> LocalEmbeddingWith(text, hasKey),
              second |-> LocalEmbeddingWith(text, hasKey),
              out |-> EmbedTextWith(text, hasKey, resp)]
  /\ UNCHANGED service

(***************************************************************************)
(* _ensure_collection, called by one attempt of _init_qdrant while other   *)
(* clients use the same Qdrant.                                            *)
(***************************************************************************)
NoCollection == [size |-> 0, distance |-> "none", by |-> "none"]

\* a variant for which only a created collection is a success
AfterCreateConflictRaises(answer) == IF answer = "created" THEN "ok" ELSE "raise"

\* lines 271-283: create_collection returned, or raised UnexpectedResponse
\* with status 409, or raised anything else
AfterCreate(answer) == IF answer \in {"created", "conflict"} THEN "ok" ELSE "raise"

\* _init_qdrant has a client whose get_collections answered; the collection
\* is missing, or exists with some vector size
FnEnsureStart ==
  /\ fn = NoFn
  /\ \E coll \in {NoCollection}
                 \cup {[size |-> n, distance |-> "cosine", by |-> "other"] :
                         n \in {VectorSize, ModelDimension}} :
       fn' = [op |-> "ensure", pc |-> "check", before |-> coll, coll |-> coll,
              raced |-> FALSE, answer |-> "none", result |-> "none",
              connected |-> FALSE]
  /\ UNCHANGED service

\* lines 264-269: collection_exists answers, or raises and counts as False
FnEnsureCheck ==
  /\ fn.op = "ensure" /\ fn.pc = "check"
  /\ \E answers \in BOOLEAN :
       LET exists == answers /\ fn.coll # NoCollection IN
       fn' = IF exists
             THEN [fn EXCEPT !.pc = "done", !.result = "ok", !.connected = TRUE]
             ELSE [fn EXCEPT !.pc = "create"]
  /\ UNCHANGED service

\* another client creates the collection between the check and the create
FnEnsureOther ==
  /\ fn.op = "ensure" /\ fn.pc = "create" /\ fn.coll = NoCollection
  /\ \E n \in {VectorSize, ModelDimension} :
       fn' = [fn EXCEPT !.coll = [size |-> n, distance |-> "cosine", by |-> "other"],
                        !.raced = TRUE]
  /\ UNCHANGED service

\* lines 270-283: create_collection(size=self._vector_size, distance=COSINE).
\* Qdrant answers 409 when the collection exists; when it is missing the
\* call creates it or fails.  Line 234: the client is kept when
\* _ensure_collection has not raised.
FnEnsureCreate ==
  /\ fn.op = "ensure" /\ fn.pc = "create"
  /\ \E answer \in {"created", "conflict", "error_status", "transport_error"} :
       /\ answer = "conflict" <=> fn.coll # NoCollection
       /\ fn' = [fn EXCEPT
                   !.pc = "done", !.answer = answer,
                   !.coll = IF answer = "created"
                            THEN [size |-> VectorSize, distance |-> "cosine", by |-> "self"]
                            ELSE @,
                   !.result = AfterCreate(answer),
                   !.connected = (AfterCreate(answer) = "ok")]
  /\ UNCHANGED service

(***************************************************************************)
(* Two RAGService objects, one in the API process and one in the worker,   *)
(* on one storage directory: each keeps its own _manifest and both write   *)
(* the same manifest.json.                                                  *)
(***************************************************************************)
Instances == {"api", "worker"}

\* the storage directory is empty and no service is constructed yet
SharedStart ==
  /\ fn = NoFn
  /\ fn' = [op |-> "shared", file |-> <<>>, up |-> {},
            mem |-> [i \in Instances |-> <<>>],
            last |-> [kind |-> "none"]]
  /\ UNCHANGED service

\* RAGService.__init__, line 45: self._manifest = self._load_manifest()
SharedConstruct ==
  /\ fn.op = "shared"
  /\ \E i \in Instances \ fn.up :
       fn' = [fn EXCEPT !.up = @ \cup {i}, !.mem[i] = fn.file,
                        !.last = [kind |-> "construct", inst |-> i]]
  /\ UNCHANGED service

\* _register_document of instance i for document d, lines 172-174, the
\* record telling who wrote it
SharedRegister ==
  /\ fn.op = "shared"
  /\ \E i \in fn.up, d \in Docs :
       LET m == Append(WithoutDoc(fn.mem[i], d), [doc |-> d, by |-> i]) IN
       fn' = [fn EXCEPT !.mem[i] = m, !.file = m,
                        !.last = [kind |-> "register", inst |-> i, doc |-> d,
                                  out |-> "ok", before |-> fn.file]]
  /\ UNCHANGED service

\* RAGService.delete_document of instance i for document d, lines 129-136
SharedDelete ==
  /\ fn.op = "shared"
  /\ \E i \in fn.up, d \in Docs :
       IF FindDocument(fn.mem[i], d) = NoRec
       THEN fn' = [fn EXCEPT !.last = [kind |-> "delete", inst |-> i, doc |-> d,
                                       out |-> "KeyError", before |-> fn.file]]
       ELSE LET m == WithoutDoc(fn.mem[i], d) IN
            fn' = [fn EXCEPT !.mem[i] = m, !.file = m,
                             !.last = [kind |-> "delete", inst |-> i, doc |-> d,
                                       out |-> "ok", before |-> fn.file]]
  /\ UNCHANGED service

(***************************************************************************)
(* workers.tasks.ingest_documents run for a job that upload_document has   *)
(* created with status "queued".  Every call of the database layer and     *)
(* ingest_path may fail.                                                   *)
(***************************************************************************)
\* update_job_status(job_id, status): the UPDATE is committed, or the call
\* raises and the row is as it was
UpdateJobStatus(f, status, ok) ==
  IF ok THEN [f EXCEPT !.job = status, !.trail = Append(@, status)] ELSE f

\* the task is picked up; path names an existing file or not, and
\* document_id and file_id are both given or not
TaskStart ==
  /\ fn = NoFn
  /\ \E pathOk \in BOOLEAN, hasIds \in BOOLEAN :
       fn' = [op |-> "task", pc |-> "check", pathOk |-> pathOk, hasIds |-> hasIds,
              job |-> "queued", trail |-> <<"queued">>,
              ingested |-> FALSE, row |-> FALSE, end |-> "none"]
  /\ UNCHANGED service

\* lines 34-38: no path, or no file at the path
TaskCheck ==
  /\ fn.op = "task" /\ fn.pc = "check"
  /\ fn' = IF fn.pathOk THEN [fn EXCEPT !.pc = "tables"]
           ELSE [fn EXCEPT !.pc = "done", !.end = "returned_error"]
  /\ UNCHANGED service

\* line 40: rag_documents.ensure_tables()
TaskTables ==
  /\ fn.op = "task" /\ fn.pc = "tables"
  /\ \E ok \in BOOLEAN :
       fn' = IF ok THEN [fn EXCEPT !.pc = "processing"]
             ELSE [fn EXCEPT !.pc = "done", !.end = "raised"]
  /\ UNCHANGED service

\* lines 41-42: update_job_status(status="processing")
TaskProcessing ==
  /\ fn.op = "task" /\ fn.pc = "processing"
  /\ \E ok \in BOOLEAN :
       fn' = IF ok THEN [UpdateJobStatus(fn, "processing", TRUE) EXCEPT !.pc = "ingest"]
             ELSE [fn EXCEPT !.pc = "done", !.end = "raised"]
  /\ UNCHANGED service

\* lines 45-51: rag_service.ingest_path(...)
TaskIngest ==
  /\ fn.op = "task" /\ fn.pc = "ingest"
  /\ \E ok \in BOOLEAN :
       fn' = IF ok THEN [fn EXCEPT !.ingested = TRUE,
                                   !.pc = IF fn.hasIds THEN "row" ELSE "finish"]
             ELSE [fn EXCEPT !.pc = "except"]
  /\ UNCHANGED service

\* lines 52-60: rag_documents.create_document(...)
TaskRow ==
  /\ fn.op = "task" /\ fn.pc = "row"
  /\ \E ok \in BOOLEAN :
       fn' = IF ok THEN [fn EXCEPT !.row = TRUE, !.pc = "finish"]
             ELSE [fn EXCEPT !.pc = "except"]
  /\ UNCHANGED service

\* lines 61-63: update_job_status(status="ingested") and the return
TaskFinish ==
  /\ fn.op = "task" /\ fn.pc = "finish"
  /\ \E ok \in BOOLEAN :
       fn' = IF ok THEN [UpdateJobStatus(fn, "ingested", TRUE)
                          EXCEPT !.pc = "done", !.end = "returned"]
             ELSE [fn EXCEPT !.pc = "except"]
  /\ UNCHANGED service

\* lines 64-72: update_job_status(status="failed") and the re-raise; if the
\* update raises, its exception leaves the task instead
TaskExcept ==
  /\ fn.op = "task" /\ fn.pc = "except"
  /\ \E ok \in BOOLEAN :
       fn' = [UpdateJobStatus(fn, "failed", ok) EXCEPT !.pc = "done", !.end = "raised"]
  /\ UNCHANGED service

NextFn ==
  \/ FnChunk
  \/ FnChunkDefault
  \/ FnCoerce
  \/ FnSearch
  \/ FnEmbed
  \/ FnRetryStart
  \/ FnRetryAttempt
  \/ FnEnsureStart
  \/ FnEnsureCheck
  \/ FnEnsureOther
  \/ FnEnsureCreate
  \/ SharedStart
  \/ SharedConstruct
  \/ SharedRegister
  \/ SharedDelete
  \/ TaskStart
  \/ TaskCheck
  \/ TaskTables
  \/ TaskProcessing
  \/ TaskIngest
  \/ TaskRow
  \/ TaskFinish
  \/ TaskExcept

SpecFn == InitFn /\ [][NextFn]_vars

(***************************************************************************)
(* Properties.                                                             *)
(***************************************************************************)
VsOps == {"add", "search", "delete", "list"}

\* the ids of the chunks tagged d in the collection, and in the fallback store
RemoteIds(d) == {x.id : x \in {y \in remote : y.payload.doc = d}}
FallbackIds(d) ==
  {fallback[n].chunk.id : n \in {m \in 1..Len(fallback) : fallback[m].chunk.doc = d}}

\* s is in (chunk_index, offset) order
InChunkOrder(s) ==
  \A i, j \in 1..Len(s) :
    i < j => (s[i].idx < s[j].idx \/ (s[i].idx = s[j].idx /\ s[i].off <= s[j].off))

\* the records of document d in manifest m
RecordsOf(m, d) == {n \in 1..Len(m) : m[n].doc = d}

C3_Original ==
  \A p \in Procs :
    (rq[p].svc = "delete" /\ rq[p].spc = "done" /\ rq[p].out = "ok")
    => /\ RemoteIds(rq[p].doc) = {}
       /\ FallbackIds(rq[p].doc) = {}
       /\ RecordsOf(manifest, rq[p].doc) = {}
       /\ RecordsOf(manifestFile, rq[p].doc) = {}
       /\ rq[p].rec.stored \notin files

\* C4, as stated: when VectorStore.add has returned without raising, the
\* chunk is in the collection or in the fallback store.
C4_Original ==
  \A p \in Procs :
    (rq[p].vop = "add" /\ rq[p].vpc = "ret")
    => rq[p].item.chunk.id \in
         RemoteIds(rq[p].item.chunk.doc) \cup FallbackIds(rq[p].item.chunk.doc)

\* C5, as stated: when ingest_path has registered document X (every add
\* having stored its chunk under X), the chunk count of the record equals
\* the number of chunks of X in the vector store.
C5_Original ==
  \A p \in Procs :
    (/\ rq[p].svc = "ingest" /\ rq[p].spc = "done" /\ rq[p].out = "ok"
     /\ rq[p].tag = rq[p].doc
     /\ (strict \/ fallbackEnabled \/ retryAttempts > 0))
    => \E n \in RecordsOf(manifest, rq[p].doc) :
         manifest[n].chunks =
           Cardinality(RemoteIds(rq[p].doc) \cup FallbackIds(rq[p].doc))

C7_Recovery ==
  /\ \A p \in Procs :
       (rq[p].vop \in VsOps /\ rq[p].vpc = "ret")
       => /\ (client /\ ~(rq[p].vop = "list" /\ rq[p].limit <= 0))
             => "remote" \in rq[p].served
          /\ rq[p].served = {"remote"} => client
  /\ \A d \in Docs : RemoteIds(d) \cap FallbackIds(d) = {}

\* after a failover that left a chunk in the fallback store, an add that
\* found the store disconnected has been served by the remote
C7_Witness ==
  \E p \in Procs :
    /\ rq[p].vop = "add" /\ rq[p].vpc = "ret" /\ ~rq[p].conn0
    /\ rq[p].served = {"remote"} /\ client
    /\ fallback # <<>>
    /\ \A d \in Docs : RemoteIds(d) \cap FallbackIds(d) = {}

C9_Original ==
  \A p \in Procs :
    (rq[p].svc = "delete" /\ rq[p].spc = "done" /\ rq[p].err = "Runtime")
    => /\ rq[p].rec.stored \notin files
       /\ RecordsOf(manifest, rq[p].doc) = {}
       /\ rq[p].out = "partial"

\* C10, as stated: delete_document(X) of an X without a record fails with
\* a not-found error, and of an X with a record returns that record.
C10_Original ==
  \A p \in Procs :
    (rq[p].svc = "delete" /\ rq[p].spc = "done")
    => IF rq[p].rec = NoRec
       THEN rq[p].out = "raise" /\ rq[p].err = "KeyError"
       ELSE rq[p].out = "ok"

\* the offsets of a sequence of chunks
Offsets(cs) == [n \in 1..Len(cs) |-> cs[n].off]

\* the window of text t that starts at `start`
Window(t, start, size) == [i \in 1..Min(size, Len(t) - start) |-> t[start + i]]

\* the chunks cs are those of the windows of the normalized text that start
\* at 0, step, 2*step, ... below its length, the whitespace-only ones left
\* out: each chunk's offset is the start of its window, its content the
\* window without the whitespace at its ends, and the offsets increase
WindowsOf(cs, text, size, overlap) ==
  LET t == Strip(text)
      step == IF size - overlap >= 1 THEN size - overlap ELSE 1
  IN /\ \A n \in 1..Len(cs) :
          /\ cs[n].off = cs[n].idx * step /\ cs[n].off < Len(t)
          /\ cs[n].content = Strip(Window(t, cs[n].off, size))
          /\ cs[n].content # <<>> /\ Len(cs[n].content) <= size
     /\ \A m, n \in 1..Len(cs) : m < n => cs[m].off < cs[n].off
     /\ \A k \in 0..(Len(t) \div step) :
          (k * step < Len(t) /\ Strip(Window(t, k * step, size)) # <<>>)
          => \E n \in 1..Len(cs) : cs[n].idx = k

\* the call is the chunking of a normalized text of 2000 characters with
\* chunk size 800 and overlap 100
IsScenario ==
  /\ fn.op = "chunk" /\ Len(Strip(fn.text)) = 2000
  /\ fn.size = 800 /\ fn.overlap = 100

\* C13, as stated: the chunks are the windows at 0, step, 2*step, ..., and
\* a text of length 2000 with chunk size 800 and overlap 100 gives 3 chunks
\* with offsets 0, 700, 1400.
C13_Original ==
  fn.op = "chunk" =>
    /\ WindowsOf(fn.chunks, fn.text, fn.size, fn.overlap)
    /\ IsScenario => Offsets(fn.chunks) = <<0, 700, 1400>>

\* C13, amended: the chunks are the windows at 0, step, 2*step, ... (starts
\* below L, step = max(1, chunkSize - overlap), at most chunkSize
\* characters each), the whitespace-only ones left out, each chunk's offset
\* being the start of its window and offsets strictly increasing; for
\* L = 2000, chunkSize = 800, overlap = 100 the windows start at 0, 700 and
\* 1400, and there are 3 chunks when none of the three is whitespace-only.
C13_Windows ==
  fn.op = "chunk" =>
    /\ WindowsOf(fn.chunks, fn.text, fn.size, fn.overlap)
    /\ IsScenario =>
         /\ \A n \in 1..Len(fn.chunks) : fn.chunks[n].off \in {0, 700, 1400}
         /\ (\A o \in {0, 700, 1400} : Strip(Window(Strip(fn.text), o, 800)) # <<>>)
            => Offsets(fn.chunks) = <<0, 700, 1400>>

\* the text of 2000 characters without whitespace has been cut into 3
\* chunks, at 0, 700 and 1400
C13_Witness ==
  IsScenario /\ Offsets(fn.chunks) = <<0, 700, 1400>>

\* C14, as stated: the chunk_index values of the chunks of one document are
\* 0, 1, ..., n-1, in increasing offset order.
C14_Original ==
  fn.op = "chunk" =>
    \A n \in 1..Len(fn.chunks) : fn.chunks[n].idx = n - 1

\* the chunks joined in order, each without its first `overlap` characters
\* when it is not at the start of the text
RECURSIVE JoinChunks(_, _)
JoinChunks(cs, overlap) ==
  IF cs = <<>> THEN <<>>
  ELSE LET c == Head(cs).content
           piece == IF Head(cs).off = 0 THEN c
                    ELSE SubSeq(c, overlap + 1, Len(c))
       IN piece \o JoinChunks(Tail(cs), overlap)

\* C15, as stated: for overlap < chunk size, the chunks joined in order,
\* without the parts that overlap the preceding window, are the normalized
\* text.
C15_Original ==
  (fn.op = "chunk" /\ fn.overlap < fn.size) =>
    JoinChunks(fn.chunks, fn.overlap) = Strip(fn.text)

\* v is vector w zero-padded or truncated to d entries
CoercedTo(v, w, d) ==
  /\ Len(v) = d
  /\ \A i \in 1..d : v[i] = (IF i <= Len(w) THEN w[i] ELSE 0)

\* C11: for the vector size D > 0, whatever the length of the caller's
\* vector, the vector handed to the remote (upsert, search), the vector the
\* fallback store keeps and the query vector it compares have exactly D
\* entries, the caller's entries zero-padded or truncated, and coercing a
\* coerced vector changes nothing.
C11_ExactlyD ==
  (fn.op = "coerce" /\ VectorSize > 0) =>
    /\ CoercedTo(fn.payload, fn.vector, VectorSize)
    /\ CoercedTo(fn.upsert, fn.vector, VectorSize)
    /\ CoercedTo(fn.stored, fn.vector, VectorSize)
    /\ CoercedTo(fn.compared, fn.vector, VectorSize)
    /\ fn.again = fn.payload

\* a vector longer than D with a non-zero entry beyond D has been truncated
C11_Witness ==
  /\ fn.op = "coerce" /\ Len(fn.vector) > VectorSize
  /\ fn.vector[Len(fn.vector)] # 0
  /\ Len(fn.stored) = VectorSize

\* the vector the fallback store keeps for the chunk with id c
VecOf(items, c) ==
  items[CHOOSE n \in 1..Len(items) : items[n].chunk.id = c].vec

\* the score of w for query q is 0
ScoreZero(q, w) == Dot(q, w) = 0

\* every entry of v is zero
IsZero(v) == \A i \in 1..Len(v) : v[i] = 0

\* C17: fallback search over n items with top_k = K >= 0 returns min(K, n)
\* chunks in non-increasing score order, chunks of equal score in insertion
\* order, no chunk left out scoring higher than a returned one; an all-zero
\* stored or query vector gives score 0.
C17_TopK ==
  fn.op = "search" =>
    LET n == Len(fn.items)
        res == fn.res
        v(i) == VecOf(fn.items, res[i].id)
    IN /\ Len(res) = Min(fn.k, n)
       /\ \A i, j \in 1..Len(res) :
            i < j => /\ ~ScoreLess(fn.q, v(i), v(j))
                     /\ res[i].id # res[j].id
                     /\ ~ScoreLess(fn.q, v(j), v(i)) => res[i].id < res[j].id
       /\ \A i \in 1..Len(res) : \E m \in 1..n : fn.items[m].chunk = res[i]
       /\ \A m \in 1..n :
            (\A i \in 1..Len(res) : res[i].id # m)
            => \A i \in 1..Len(res) :
                 /\ ~ScoreLess(fn.q, v(i), fn.items[m].vec)
                 /\ ~ScoreLess(fn.q, fn.items[m].vec, v(i)) => res[i].id < m
       /\ \A m \in 1..n :
            (IsZero(fn.q) \/ IsZero(fn.items[m].vec))
            => /\ ScoreZero(fn.q, fn.items[m].vec)
               /\ \A w \in SearchVectors :
                    ScoreLess(fn.q, fn.items[m].vec, w) <=> Dot(fn.q, w) > 0

\* of three items the last scores highest and the first two score the same:
\* top_k = 2 returns the last and the first
C17_Witness ==
  /\ fn.op = "search" /\ Len(fn.items) = 3 /\ fn.k = 2
  /\ Len(fn.res) = 2 /\ fn.res[1].id = 3 /\ fn.res[2].id = 1
  /\ ~ScoreLess(fn.q, fn.items[1].vec, fn.items[2].vec)
  /\ ~ScoreLess(fn.q, fn.items[2].vec, fn.items[1].vec)
  /\ fn.items[1].vec # fn.items[2].vec

\* the sum of the entries of v
RECURSIVE SumOf(_)
SumOf(v) == IF v = <<>> THEN 0 ELSE Head(v) + SumOf(Tail(v))

C19_Original ==
  (fn.op = "embed" /\ fn.key /\ fn.resp # [kind |-> "list", embedding |-> <<1, 0, 2>>])
  => fn.out = fn.first


\* the chunks the store that served a list holds for document d
HeldChunks(where, d) ==
  IF where = {"remote"}
  THEN {ToDocumentChunk(x) : x \in {y \in remote : y.payload.doc = d}}
  ELSE {fallback[n].chunk : n \in {m \in 1..Len(fallback) : fallback[m].chunk.doc = d}}

\* C16: what list_document_chunks returns is made of chunks of the requested
\* document only, each held by the backend that served the call, in
\* (chunk_index, offset, id) order whatever their ids, and is never longer
\* than the limit; the remote path has paged until the limit was reached or
\* the collection had no further point of the document, so it returns
\* min(limit, number of the document's points) chunks.
C16_Listed ==
  \A p \in Procs :
    (rq[p].vop = "list" /\ rq[p].vpc = "ret")
    => LET res == rq[p].res IN
       /\ \A n \in 1..Len(res) : res[n].doc = rq[p].doc
       /\ \A i, j \in 1..Len(res) : i < j => ChunkBefore(res[i], res[j])
       /\ Len(res) <= rq[p].limit
       /\ rq[p].served \in {{"remote"}, {"fallback"}}
            => \A n \in 1..Len(res) : res[n] \in HeldChunks(rq[p].served, rq[p].doc)
       /\ rq[p].served = {"remote"}
            => Len(res) = Min(rq[p].limit, Cardinality(RemoteIds(rq[p].doc)))

\* the collection holds points of two documents; a list with room for more
\* returns the one chunk of the requested document and stops there
C16_Witness ==
  \E p \in Procs :
    /\ rq[p].vop = "list" /\ rq[p].vpc = "ret" /\ rq[p].served = {"remote"}
    /\ \E x \in remote : x.payload.doc # rq[p].doc
    /\ Len(rq[p].res) = 1 /\ rq[p].limit > 1


\* C12, as stated: every add, search, delete_document and
\* list_document_chunks that is entered comes to its end, by a return or by
\* an exception, whichever remote calls and connection probes fail.
C12_Original ==
  \A p \in Procs :
    (rq[p].vop \in VsOps /\ rq[p].vpc = "entry")
      ~> (rq[p].vpc \in {"ret", "raise"})


\* C20, as stated: when two ingestions of one document id that ran at the
\* same time have both returned, the registry holds exactly one record for
\* the id, and it is the record one of the two wrote.
C20_Original ==
  \A p, q \in Procs :
    (/\ p # q /\ rq[p].doc = rq[q].doc
     /\ rq[p].svc = "ingest" /\ rq[p].spc = "done" /\ rq[p].out = "ok"
     /\ rq[q].svc = "ingest" /\ rq[q].spc = "done" /\ rq[q].out = "ok")
    => /\ Cardinality(RecordsOf(manifest, rq[p].doc)) = 1
       /\ \A n \in RecordsOf(manifest, rq[p].doc) :
            manifest[n] \in {rq[p].rec, rq[q].rec}


\* C22, as stated: an operation entered while the store is not connected
\* probes the remote with fewer attempts than the configured budget (where
\* the budget allows fewer).
C22_Original ==
  \A p \in Procs :
    (/\ rq[p].vop \in VsOps /\ rq[p].vpc = "probe" /\ rq[p].ctx = "entry"
     /\ ~rq[p].conn0 /\ retryAttempts >= 2)
    => rq[p].att + 1 < retryAttempts


\* C23, as stated: the constructor of the VectorStore, whose probes of the
\* remote may all fail, does not fail: it returns, and the service is ready
\* for its first operation.
C23_Original ==
  /\ \A p \in Procs : rq[p].vop = "init" => rq[p].vpc # "raise"
  /\ ready # "failed"


\* what C24 says of the attempts and the sleeps of a retry loop with a
\* budget of at least 1: at most `budget` attempts, the k-th sleep (k from
\* 0) min(maxDelay, delay * 2^k), the sleeps never decreasing nor above
\* maxDelay, one sleep after every failed attempt but the last, none after
\* the attempt that ends the loop
AttemptsAndSleeps ==
  /\ fn.tried <= fn.budget
  /\ \A k \in 1..Len(fn.sleeps) :
       /\ fn.sleeps[k] = Min(fn.maxDelay, fn.delay * Pow2(k - 1))
       /\ fn.sleeps[k] <= fn.maxDelay
       /\ k > 1 => fn.sleeps[k - 1] <= fn.sleeps[k]
  /\ Len(fn.sleeps) = IF fn.status = "running" THEN fn.tried ELSE fn.tried - 1

C25_Idempotent ==
  (fn.op = "ensure" /\ fn.pc = "done")
  => /\ (fn.before # NoCollection \/ fn.raced)
          => (/\ fn.result = "ok" /\ fn.connected
              /\ fn.coll.by = "other"
              /\ fn.before # NoCollection => fn.coll = fn.before)
     /\ fn.coll.by = "self"
          => (/\ fn.before = NoCollection /\ ~fn.raced /\ fn.result = "ok"
              /\ fn.coll = [size |-> VectorSize, distance |-> "cosine", by |-> "self"])
     /\ fn.result = "raise" <=> fn.coll = NoCollection
     /\ fn.connected <=> fn.result = "ok"

\* the collection was missing at the check, another client created it, the
\* create call answered already-exists and the store is connected
C25_Witness ==
  /\ fn.op = "ensure" /\ fn.pc = "done"
  /\ fn.before = NoCollection /\ fn.raced /\ fn.answer = "conflict"
  /\ fn.result = "ok" /\ fn.connected


\* C26, as stated: every chunk an ingestion has handed to the store is
\* tagged with the document id the ingestion registers and returns,
\* whatever document_id the caller's metadata carries.
C26_Original ==
  \A p \in Procs :
    (rq[p].svc = "ingest" /\ rq[p].spc = "done" /\ rq[p].out = "ok")
    => /\ rq[p].rec.doc = rq[p].doc
       /\ \A n \in 1..Len(rq[p].chunks) : rq[p].chunks[n].doc = rq[p].doc


\* C27, as stated: when an ingestion of a document id that was registered
\* already has returned, the stores hold for that id only chunks of this
\* ingestion, as many as it registered at most: none of the earlier
\* ingestion of the id is left.
C27_Original ==
  \A p \in Procs :
    (/\ rq[p].svc = "ingest" /\ rq[p].spc = "done" /\ rq[p].out = "ok"
     /\ rq[p].tag = rq[p].doc /\ rq[p].prev # NoRec)
    => /\ (RemoteIds(rq[p].doc) \cup FallbackIds(rq[p].doc))
            \subseteq {rq[p].chunks[n].id : n \in 1..Len(rq[p].chunks)}
       /\ Cardinality(RemoteIds(rq[p].doc) \cup FallbackIds(rq[p].doc))
            <= rq[p].rec.chunks


\* the points of the collection as items of an InMemoryVectorStore
RemoteAsItems ==
  LET byId(x, y) == x.id < y.id
      sorted == SortSet(remote, byId)
  IN [n \in 1..Len(sorted) |->
        [chunk |-> ToDocumentChunk(sorted[n]), vec |-> sorted[n].vec]]

\* C29, as stated: what list_document_chunks returns from the collection is
\* what the fallback store returns for the same chunks and the same limit:
\* the first `limit` chunks in (chunk_index, offset, id) order.
C29_Original ==
  \A p \in Procs :
    (rq[p].vop = "list" /\ rq[p].vpc = "ret" /\ rq[p].served = {"remote"})
    => rq[p].res = FbList(RemoteAsItems, rq[p].doc, rq[p].limit)


\* an add that the fallback store served has not lost its chunk, no
\* delete_document of its document having been asked for
AddKept ==
  \A p \in Procs :
    (/\ rq[p].svc = "add" /\ rq[p].vpc = "ret" /\ rq[p].served = {"fallback"}
     /\ hist[rq[p].doc].st # "dirty")
    => rq[p].item.chunk.id \in FallbackIds(rq[p].doc)

\* a request about to make its remote call has a client to call
ClientKept == \A p \in Procs : rq[p].vpc = "call" => client

\* C21, as stated: with requests on two threads of one VectorStore, no add
\* served by the fallback store is lost to a delete_document of another
\* document, and no request makes its remote call on a client that the
\* other's reconnect has cleared.
C21_Original == AddKept /\ ClientKept


\* C28, as stated: with two services on one manifest file, a delete through
\* one of a document whose record the other wrote to the file finds it and
\* succeeds, and a register or a delete through one leaves in the file
\* every record of another document that the other wrote.
C28_Original ==
  (fn.op = "shared" /\ fn.last.kind \in {"register", "delete"})
  => LET l == fn.last IN
     /\ (/\ l.kind = "delete"
          /\ \E n \in 1..Len(l.before) :
               l.before[n].doc = l.doc /\ l.before[n].by # l.inst)
         => l.out = "ok"
     /\ \A n \in 1..Len(l.before) :
          (l.before[n].doc # l.doc /\ l.before[n].by # l.inst)
          => \E k \in 1..Len(fn.file) : fn.file[k] = l.before[n]


\* C30, as stated: when the task of a job has returned or raised, the job
\* is "ingested" if the ingestion and the document row both succeeded and
\* "failed" if not, and its status has only moved from "queued" to
\* "processing" and from there to "ingested" or "failed".
C30_Original ==
  (fn.op = "task" /\ fn.pc = "done")
  => /\ fn.job = (IF fn.ingested /\ fn.row THEN "ingested" ELSE "failed")
     /\ fn.trail \in {<<"queued", "processing", "ingested">>,
                       <<"queued", "processing", "failed">>}

=============================================================================
